---- MODULE Spec2Model ----
(***************************************************************************)
(* Model of the stream session manager of server.js: the registry          *)
(* `streams`, the HTTP handlers /api/start-stream and /api/stop-stream,    *)
(* startStream, stopStream, the ffmpeg child-process callbacks and the     *)
(* WebSocket fan-out.                                                      *)
(*                                                                         *)
(* Node runs every callback to completion on one thread, so each handler   *)
(* is one atomic action.  Callbacks queued with process.nextTick (the      *)
(* 'error' of a failed spawn, the 'error' of a failed listen) run before   *)
(* any other event: they are kept in `ticks` and every other action waits  *)
(* for `ticks` to be empty.                                                *)
(***************************************************************************)
EXTENDS Integers, Sequences, FiniteSets, TLC

\* ------------------------------------------------------------------ bounds
MaxSessions      == 2   \* startStream calls that create a WebSocketServer
MaxRelaySessions == 1   \* the same, in the specification of the fan-out
MaxChunks        == 2   \* stdout 'data' events per ffmpeg process
MaxViewers       == 2   \* WebSocket clients ever connecting
MaxOwnChunks     == 1   \* chunks per process where sessions run side by side
MaxOwnViewers    == 1   \* viewers where sessions run side by side
MaxProbes        == 2   \* /api/check-ffmpeg requests
MaxEffects       == 3   \* runs of the effect of one mounted RTSPPlayer
MaxCameras       == 3   \* cameras in the list at one time
MaxCalls         == 2   \* start and stop requests of the App page in flight
MaxClock         == 3   \* milliseconds Date.now() advances
MaxLog           == 6   \* console messages before the console is cleared
OutboundCap      == 1   \* chunks a bounded outbound queue of a viewer would hold

\* ------------------------------------------------------------------ inputs
\* A wsPort value as JSON.parse delivers it: its JavaScript type and its
\* numeric value.  Map keys compare by SameValueZero, so the number 9900
\* and the string "9900" are different registry keys for one TCP port.
Keys == { <<"number", 9900>>, <<"number", 9901>>,
          <<"string", 9900>>, <<"number", 70000>> }

Urls == { "rtsp://cam1", "rtsp://cam2" }

\* Outcome of child_process.spawn: the process runs, the spawn fails
\* asynchronously ('error' then 'close' are emitted), or spawn throws.
Launches == { "ok", "enoent", "throw" }

\* What process id writes to stdout as its n-th chunk: n bytes that name the
\* process and the chunk, so chunks differ in content, length and origin.
Chunk(id, n) == [i \in 1..n |-> 10 * id + n]

Ids     == 1..MaxSessions
Viewers == 1..MaxViewers
Probes  == 1..MaxProbes

\* How `ffmpeg -version` ends: exit code 0, a non-zero exit code, or the
\* executable is missing (spawn fails with ENOENT)
ProbeOutcomes == { "exit0", "exit1", "enoent" }

VARIABLES
  streams,     \* const streams = new Map(): key -> {rtspUrl, wss, ffmpeg, totalBytes}
  nextId,      \* number of WebSocketServer objects created so far
  wss,         \* id -> the WebSocketServer created by the id-th startStream
  ffmpeg,      \* id -> the child process spawned by the id-th startStream
  totalBytes,  \* id -> the closure variable `let totalBytes` of that call
  emitted,     \* id -> chunks the process wrote to stdout, in order
  viewers,     \* viewer -> its WebSocket connection, what it received and
               \* what the server still holds for it
  ticks,       \* process.nextTick queue
  crashed,     \* the node process died of an uncaught exception
  exited,      \* process.exit() was called; streams is then the registry as
               \* exit found it
  resp,        \* the last HTTP response written
  okStarts,    \* key -> successful start responses since the key's last teardown
  probe,       \* probe -> the `ffmpeg -version` child of a /api/check-ffmpeg
               \* request and what was written to the request's response
  player,      \* one mounted RTSPPlayer: its refs, its timers, its players
  cameras,     \* const [cameras, setCameras]: the camera list of the App page,
               \* the removals that wait for their stop request and the
               \* start and stop requests that wait for their response
  now,         \* Date.now()
  gate         \* the GateControl page: selection, statuses, console, request

\* the state of the browser pages
frontend == <<player, cameras, now, gate>>

\* the state of the node server
backend == <<streams, nextId, wss, ffmpeg, totalBytes, emitted, viewers,
             ticks, crashed, exited, resp, okStarts, probe>>

vars == <<streams, nextId, wss, ffmpeg, totalBytes, emitted, viewers,
          ticks, crashed, exited, resp, okStarts, probe, frontend>>

\* ------------------------------------------------------------- primitives
EmptyMap == [k \in {} |-> 0]

MapSet(m, k, v) == [x \in (DOMAIN m) \cup {k} |-> IF x = k THEN v ELSE m[x]]

MapDelete(m, k) == [x \in (DOMAIN m) \ {k} |-> m[x]]

\* net.Server.listen coerces the port (number or numeric string) to a number
ToPort(key) == key[2]

\* listen() throws ERR_SOCKET_BAD_PORT synchronously outside 0..65535
ValidPort(key) == ToPort(key) >= 0 /\ ToPort(key) <= 65535

\* const API_PORT = 3001: the port of the HTTP API itself
API_PORT == 3001

\* the listening sockets this process holds: the HTTP API from start-up on,
\* and the WebSocket servers
PortBound(port) ==
  \/ port = API_PORT
  \/ \E i \in Ids : wss[i].st = "listening" /\ ToPort(wss[i].key) = port

\* wss.clients: connections are tracked until their 'close'
Clients(id) == { v \in Viewers : viewers[v].relay = id /\ viewers[v].readyState \in {1, 2} }

NoWss    == [st |-> "none", key |-> <<"number", 0>>, closeCalls |-> 0]
NoFfmpeg == [st |-> "none", wsPort |-> <<"number", 0>>, signalled |-> FALSE, killCalls |-> 0]
NoViewer == [relay |-> 0, readyState |-> 0, joinedAt |-> 0, received |-> <<>>,
             stalled |-> FALSE, pending |-> <<>>]
NoProbe  == [st |-> "none", code |-> 0, writes |-> 0, answer |-> <<>>]
NoPlayer == [effect |-> 0, runs |-> 0, initializing |-> FALSE, playerRef |-> 0,
             created |-> 0, alive |-> {}, timers |-> {}, loaded |-> FALSE]
Gates    == { "barrel1", "barrel2" }
NoReply  == [status |-> 0, body |-> "none"]
NoGate   == [selected |-> "barrel1", status |-> [g \in Gates |-> "UNKNOWN"],
             log |-> <<>>, loading |-> FALSE,
             gateId |-> "none", operation |-> "none", reply |-> NoReply]
NoResp   == [op |-> "none", key |-> <<"number", 0>>, success |-> FALSE, msg |-> "none"]

Init ==
  /\ streams = EmptyMap
  /\ nextId = 0
  /\ wss = [i \in Ids |-> NoWss]
  /\ ffmpeg = [i \in Ids |-> NoFfmpeg]
  /\ totalBytes = [i \in Ids |-> 0]
  /\ emitted = [i \in Ids |-> <<>>]
  /\ viewers = [v \in Viewers |-> NoViewer]
  /\ ticks = <<>>
  /\ crashed = FALSE
  /\ exited = FALSE
  /\ resp = NoResp
  /\ okStarts = [k \in Keys |-> 0]
  /\ probe = [p \in Probes |-> NoProbe]
  /\ player = NoPlayer
  /\ cameras = [list |-> <<>>, removing |-> {}, calls |-> {}]
  /\ now = 0
  /\ gate = NoGate

\* the event loop can run a new callback
Idle == ~crashed /\ ~exited /\ ticks = <<>>

\* ------------------------------------------------------------- stopStream
\* const stream = streams.get(wsPort); if (!stream) ...
StreamFound(wsPort) == wsPort \in DOMAIN streams

\* stream.ffmpeg.kill('SIGTERM'): the signal is sent only while the process
\* still has a handle; on an exited process kill() returns false.
\* (faulty variant: the call is made but no signal reaches the process)
KillNoSignal(p) == [p EXCEPT !.killCalls = @ + 1]

Kill(p) ==
  [p EXCEPT !.killCalls = @ + 1,
            !.signalled = IF p.st = "running" THEN TRUE ELSE @]

\* stream.wss.close(): ws 8 closes the HTTP server it created (the listening
\* handle is released at once) and leaves the connected clients open; a
\* server that is not listening goes through the same states.
\* (faulty variant: the listening handle is not released)
WssCloseKeepListening(w) == [w EXCEPT !.closeCalls = @ + 1]

WssClose(w) ==
  [w EXCEPT !.closeCalls = @ + 1,
            !.st = IF w.st \in {"listening", "error"} THEN "closing" ELSE @]

\* streams.delete(wsPort)
\* (faulty variant: the entry stays)
DeleteKeep(m, wsPort) == m

Delete(m, wsPort) == MapDelete(m, wsPort)

\* stopStream(wsPort) applied to the process table f, the server table w
\* and the registry m: the three effects and the result.
StopFfmpeg(wsPort, f) ==
  IF StreamFound(wsPort)
  THEN [f EXCEPT ![streams[wsPort].ffmpeg] = Kill(@)]
  ELSE f

StopWss(wsPort, w) ==
  IF StreamFound(wsPort)
  THEN [w EXCEPT ![streams[wsPort].wss] = WssClose(@)]
  ELSE w

StopStreams(wsPort) ==
  IF StreamFound(wsPort) THEN Delete(streams, wsPort) ELSE streams

StopOk(wsPort) ==
  [op |-> "stop", key |-> wsPort, success |-> TRUE, msg |-> "stopped"]

StopNotFound(wsPort) ==
  [op |-> "stop", key |-> wsPort, success |-> FALSE, msg |-> "not_found"]

\* (faulty variant: the missing entry is not reported)
StopResultAlwaysOk(wsPort) == StopOk(wsPort)

StopResult(wsPort) ==
  IF StreamFound(wsPort) THEN StopOk(wsPort) ELSE StopNotFound(wsPort)

\* the window of start requests of a key ends when its entry is torn down
StopOkStarts(wsPort) ==
  IF StreamFound(wsPort) THEN [okStarts EXCEPT ![wsPort] = 0] ELSE okStarts

\* POST /api/stop-stream
StopRequest(wsPort) ==
  /\ Idle
  /\ ffmpeg' = StopFfmpeg(wsPort, ffmpeg)
  /\ wss' = StopWss(wsPort, wss)
  /\ streams' = StopStreams(wsPort)
  /\ resp' = StopResult(wsPort)
  /\ okStarts' = StopOkStarts(wsPort)
  /\ UNCHANGED <<probe, exited, frontend, nextId, totalBytes, emitted, viewers, ticks, crashed>>

\* ------------------------------------------------------------ startStream
\* if (streams.has(wsPort)) in the /api/start-stream handler
\* (faulty variant: the handler does not look the key up)
AlreadyActiveNever(wsPort) == FALSE

AlreadyActive(wsPort) == wsPort \in DOMAIN streams

\* `${wsPort}` in a template literal: the decimal text of a number, the
\* characters of a string
PortText(key) == key[2]

\* ws_url: `ws://127.0.0.1:${wsPort}` in the result of startStream
StartWsUrl(wsPort) == <<"ws://127.0.0.1:", PortText(wsPort)>>

StartOk(wsPort) ==
  [op |-> "start", key |-> wsPort, success |-> TRUE, msg |-> "started",
   ws_url |-> StartWsUrl(wsPort)]

StartFail(wsPort, why) ==
  [op |-> "start", key |-> wsPort, success |-> FALSE, msg |-> why]

\* new WebSocketServer({ port: wsPort }): the listen binds synchronously; a
\* failed bind is reported by an 'error' event on the next tick.
NewWss(wsPort) ==
  [st |-> IF PortBound(ToPort(wsPort)) THEN "error" ELSE "listening",
   key |-> wsPort, closeCalls |-> 0]

\* spawn(FFMPEG_PATH, [...])
NewFfmpeg(wsPort, launch) ==
  [st |-> IF launch = "ok" THEN "running" ELSE "failed",
   wsPort |-> wsPort, signalled |-> FALSE, killCalls |-> 0]

\* streams.set(wsPort, { rtspUrl, wss, ffmpeg, totalBytes: 0 })
NewStream(rtspUrl, id) ==
  [rtspUrl |-> rtspUrl, wss |-> id, ffmpeg |-> id, totalBytes |-> 0]

StartTicks(id, launch) ==
  (IF wss'[id].st = "error" THEN << <<"wssError", id>> >> ELSE <<>>)
  \o (IF launch = "enoent" THEN << <<"spawnError", id>> >> ELSE <<>>)

\* POST /api/start-stream with body { rtspUrl, wsPort }
StartRequest(rtspUrl, wsPort, launch) ==
  /\ Idle
  /\ IF AlreadyActive(wsPort)
     THEN /\ resp' = StartFail(wsPort, "in_use")
          /\ UNCHANGED <<streams, nextId, wss, ffmpeg, ticks, okStarts>>
     ELSE IF ~ValidPort(wsPort)
     THEN \* new WebSocketServer throws, caught by the handler
          /\ resp' = StartFail(wsPort, "exception")
          /\ UNCHANGED <<streams, nextId, wss, ffmpeg, ticks, okStarts>>
     ELSE /\ nextId < MaxSessions
          /\ nextId' = nextId + 1
          /\ wss' = [wss EXCEPT ![nextId'] = NewWss(wsPort)]
          /\ IF launch = "throw"
             THEN \* spawn throws after the server was created
                  /\ resp' = StartFail(wsPort, "exception")
                  /\ ticks' = StartTicks(nextId', launch)
                  /\ UNCHANGED <<streams, ffmpeg, okStarts>>
             ELSE /\ ffmpeg' = [ffmpeg EXCEPT ![nextId'] = NewFfmpeg(wsPort, launch)]
                  /\ streams' = MapSet(streams, wsPort, NewStream(rtspUrl, nextId'))
                  /\ ticks' = StartTicks(nextId', launch)
                  /\ resp' = StartOk(wsPort)
                  /\ okStarts' = [okStarts EXCEPT ![wsPort] = @ + 1]
  /\ UNCHANGED <<probe, exited, frontend, totalBytes, emitted, viewers, crashed>>

\* --------------------------------------------------------- nextTick queue
\* The WebSocketServer re-emits the HTTP server's 'error'; server.js
\* registers no 'error' listener on wss, so the event is thrown and the
\* process dies: its memory and its sockets are gone, its children are not.
Crash ==
  /\ ~crashed
  /\ ticks # <<>>
  /\ Head(ticks)[1] = "wssError"
  /\ crashed' = TRUE
  /\ ticks' = <<>>
  /\ streams' = EmptyMap
  /\ wss' = [i \in Ids |-> IF wss[i].st = "none" THEN wss[i]
                           ELSE [wss[i] EXCEPT !.st = "closed"]]
  /\ viewers' = [v \in Viewers |-> IF viewers[v].readyState \in {1, 2}
                                   THEN [viewers[v] EXCEPT !.readyState = 3]
                                   ELSE viewers[v]]
  /\ okStarts' = [k \in Keys |-> 0]
  /\ UNCHANGED <<probe, exited, frontend, nextId, ffmpeg, totalBytes, emitted, resp>>

\* ffmpeg.on('error', ...) of a failed spawn: stopStream(wsPort)
OnError(id) ==
  /\ ~crashed
  /\ ticks # <<>>
  /\ Head(ticks) = <<"spawnError", id>>
  /\ ticks' = Tail(ticks)
  /\ ffmpeg' = StopFfmpeg(ffmpeg[id].wsPort, ffmpeg)
  /\ wss' = StopWss(ffmpeg[id].wsPort, wss)
  /\ streams' = StopStreams(ffmpeg[id].wsPort)
  /\ okStarts' = StopOkStarts(ffmpeg[id].wsPort)
  /\ UNCHANGED <<probe, exited, frontend, nextId, totalBytes, emitted, viewers, crashed, resp>>

\* ---------------------------------------------------------- child process
\* the process ends, by itself or after the signal
ProcExit(id) ==
  /\ Idle
  /\ ffmpeg[id].st = "running"
  /\ ffmpeg' = [ffmpeg EXCEPT ![id].st = "exited"]
  /\ UNCHANGED <<probe, exited, frontend, streams, nextId, wss, totalBytes, emitted, viewers, ticks,
                 crashed, resp, okStarts>>

\* the process object after its 'close': nothing is spawned in its place
\* (faulty variant: the handler spawns the process again)
ClosedRespawn(p) == [p EXCEPT !.st = "running", !.signalled = FALSE]

Closed(p) == [p EXCEPT !.st = "closed"]

\* ffmpeg.on('close', ...): emitted once the process has ended (or failed to
\* start) and its stdio is closed: stopStream(wsPort)
OnClose(id) ==
  /\ Idle
  /\ ffmpeg[id].st \in {"exited", "failed"}
  /\ ffmpeg' = StopFfmpeg(ffmpeg[id].wsPort, [ffmpeg EXCEPT ![id] = Closed(@)])
  /\ wss' = StopWss(ffmpeg[id].wsPort, wss)
  /\ streams' = StopStreams(ffmpeg[id].wsPort)
  /\ okStarts' = StopOkStarts(ffmpeg[id].wsPort)
  /\ UNCHANGED <<probe, exited, frontend, nextId, totalBytes, emitted, viewers, ticks, crashed, resp>>

\* ffmpeg.stdout.on('data', ...): count the bytes, send the chunk to every
\* client whose readyState is OPEN
\* client.send(data) returns at once: the frame goes to the socket, and
\* while the peer does not read it stays in the socket's write queue
\* (bufferedAmount), which server.js never inspects.
Send(v, data) ==
  IF v.stalled
  THEN [v EXCEPT !.pending = Append(@, data)]
  ELSE [v EXCEPT !.received = Append(@, data)]

\* (faulty variant: a send waits for its peer, so the loop does not get
\* past a client that does not read)
RecipientsUntilStalled(id) ==
  { v \in Clients(id) :
      /\ viewers[v].readyState = 1
      /\ \A u \in Clients(id) :
           (u < v /\ viewers[u].readyState = 1) => ~viewers[u].stalled }

\* (faulty variant: the clients are looked up by port, not through the
\* server object the callback closes over)
RecipientsByPort(id) ==
  { v \in Viewers :
      /\ viewers[v].readyState = 1
      /\ ToPort(wss[viewers[v].relay].key) = ToPort(wss[id].key) }

\* (faulty variant: the readyState of a client is not looked at)
RecipientsAllClients(id) == Clients(id)

\* (faulty variant: the loop stops after the first open client)
RecipientsFirstOnly(id) ==
  { v \in Clients(id) : viewers[v].readyState = 1
                        /\ \A u \in Clients(id) : viewers[u].readyState = 1 => v <= u }

\* wss.clients.forEach(client => { if (client.readyState === 1) ... })
Recipients(id) == { v \in Clients(id) : viewers[v].readyState = 1 }

OnData(id) ==
  LET data == Chunk(id, Len(emitted[id]) + 1) IN
  /\ Idle
  /\ ffmpeg[id].st \in {"running", "exited"}
  /\ Len(emitted[id]) < MaxChunks
  /\ emitted' = [emitted EXCEPT ![id] = Append(@, data)]
  /\ totalBytes' = [totalBytes EXCEPT ![id] = @ + Len(data)]
  /\ viewers' = [v \in Viewers |->
                   IF v \in Recipients(id)
                   THEN Send(viewers[v], data)
                   ELSE viewers[v]]
  /\ UNCHANGED <<probe, exited, frontend, streams, nextId, wss, ffmpeg, ticks, crashed, resp, okStarts>>

\* ---------------------------------------------------------------- viewers
\* what the 'connection' handler sends to the new client: nothing
\* (faulty variant: the chunks emitted so far are replayed)
WelcomeReplay(id) == emitted[id]

Welcome(id) == <<>>

\* wss.on('connection', ...): the handshake completed, ws joins wss.clients.
\* Connections are interchangeable: the next one takes the lowest free slot.
Connect(v, id) ==
  /\ Idle
  /\ viewers[v].readyState = 0
  /\ \A u \in Viewers : u < v => viewers[u].readyState # 0
  /\ wss[id].st = "listening"
  /\ viewers' = [viewers EXCEPT ![v] =
                   [relay |-> id, readyState |-> 1,
                    joinedAt |-> Len(emitted[id]), received |-> Welcome(id),
                    stalled |-> FALSE, pending |-> <<>>]]
  /\ UNCHANGED <<probe, exited, frontend, streams, nextId, wss, ffmpeg, totalBytes, emitted, ticks,
                 crashed, resp, okStarts>>

\* the closing handshake of a connection starts (readyState CLOSING)
Closing(v) ==
  /\ Idle
  /\ viewers[v].readyState = 1
  /\ viewers' = [viewers EXCEPT ![v].readyState = 2]
  /\ UNCHANGED <<probe, exited, frontend, streams, nextId, wss, ffmpeg, totalBytes, emitted, ticks,
                 crashed, resp, okStarts>>

\* ws.on('close', ...): the connection is gone and leaves wss.clients; the
\* connection object is dropped with what it had received
Disconnect(v) ==
  /\ Idle
  /\ viewers[v].readyState \in {1, 2}
  /\ viewers' = [viewers EXCEPT ![v] = [NoViewer EXCEPT !.readyState = 3]]
  /\ UNCHANGED <<probe, exited, frontend, streams, nextId, wss, ffmpeg, totalBytes, emitted, ticks,
                 crashed, resp, okStarts>>

\* the peer of an open connection stops reading: its receive window fills
Stall(v) ==
  /\ Idle
  /\ viewers[v].readyState = 1
  /\ ~viewers[v].stalled
  /\ viewers' = [viewers EXCEPT ![v].stalled = TRUE]
  /\ UNCHANGED <<probe, exited, frontend, streams, nextId, wss, ffmpeg, totalBytes, emitted, ticks,
                 crashed, resp, okStarts>>

\* the peer reads again: the socket's write queue drains in order
Resume(v) ==
  /\ Idle
  /\ viewers[v].readyState = 1
  /\ viewers[v].stalled
  /\ viewers' = [viewers EXCEPT ![v].stalled = FALSE,
                                ![v].received = @ \o viewers[v].pending,
                                ![v].pending = <<>>]
  /\ UNCHANGED <<probe, exited, frontend, streams, nextId, wss, ffmpeg, totalBytes, emitted, ticks,
                 crashed, resp, okStarts>>

\* the HTTP server of a closed wss emits 'close' once no connection is left
WssClosed(id) ==
  /\ Idle
  /\ wss[id].st = "closing"
  /\ Clients(id) = {}
  /\ wss' = [wss EXCEPT ![id].st = "closed"]
  /\ UNCHANGED <<probe, exited, frontend, streams, nextId, ffmpeg, totalBytes, emitted, viewers, ticks,
                 crashed, resp, okStarts>>

\* ------------------------------------------------------------------ SIGINT
\* The keys of a Map in iteration order, which is insertion order: every
\* streams.set inserts a new key, with the WebSocketServer created last.
RECURSIVE KeysInOrder(_)
KeysInOrder(m) ==
  IF DOMAIN m = {} THEN <<>>
  ELSE LET k == CHOOSE k \in DOMAIN m : \A j \in DOMAIN m : m[k].wss <= m[j].wss
       IN  <<k>> \o KeysInOrder(MapDelete(m, k))

\* Where Map.prototype.forEach goes on after its callback returned, as a
\* position among the entries the map then has: a deleted entry is unlinked
\* and the iteration continues with the entry that followed it.
\* (faulty variant: the position advances as on an array that was spliced)
NextIndexSpliced(i, deleted) == i + 1

NextIndex(i, deleted) == IF deleted THEN i ELSE i + 1

\* streams.forEach((_, port) => stopStream(port)) from position i on, applied
\* to the registry m, the process table f and the server table w
RECURSIVE ForEachStop(_, _, _, _)
ForEachStop(m, f, w, i) ==
  IF i > Len(KeysInOrder(m))
  THEN [streams |-> m, ffmpeg |-> f, wss |-> w]
  ELSE LET port == KeysInOrder(m)[i]
           left == Delete(m, port)
       IN  ForEachStop(left,
                       [f EXCEPT ![m[port].ffmpeg] = Kill(@)],
                       [w EXCEPT ![m[port].wss] = WssClose(@)],
                       NextIndex(i, port \notin DOMAIN left))

\* process.on('SIGINT', ...): every session is stopped, then process.exit()
\* ends the process: its sockets are closed by the system, its children
\* live on until the signal ends them.
SigInt ==
  LET stopped == ForEachStop(streams, ffmpeg, wss, 1) IN
  /\ Idle
  /\ streams' = stopped.streams
  /\ ffmpeg' = stopped.ffmpeg
  /\ wss' = [i \in Ids |-> IF stopped.wss[i].st = "none" THEN stopped.wss[i]
                           ELSE [stopped.wss[i] EXCEPT !.st = "closed"]]
  /\ viewers' = [v \in Viewers |-> IF viewers[v].readyState \in {1, 2}
                                   THEN [viewers[v] EXCEPT !.readyState = 3]
                                   ELSE viewers[v]]
  /\ okStarts' = [k \in Keys |->
                    IF k \in DOMAIN streams /\ k \notin DOMAIN stopped.streams
                    THEN 0 ELSE okStarts[k]]
  /\ exited' = TRUE
  /\ UNCHANGED <<probe, frontend, nextId, totalBytes, emitted, ticks, crashed, resp>>

\* ------------------------------------------------------- /api/check-ffmpeg
\* the exit code 'close' reports: that of the process, or the negative errno
\* of the failed spawn
ProbeCode(outcome) ==
  IF outcome = "exit0" THEN 0 ELSE IF outcome = "exit1" THEN 1 ELSE -2

\* res.writeHead(200, ...); res.end(JSON.stringify({ available })): the
\* first call sends the answer; on a response that was already sent
\* writeHead throws ERR_HTTP_HEADERS_SENT
HeadersSent(pr) == pr.writes > 0

ProbeWrite(pr, available) ==
  IF HeadersSent(pr)
  THEN [pr EXCEPT !.writes = @ + 1]
  ELSE [pr EXCEPT !.writes = 1, !.answer = <<available>>]

\* GET /api/check-ffmpeg: spawn(FFMPEG_PATH, ['-version']) and two listeners
CheckFfmpeg(p, outcome) ==
  /\ Idle
  /\ probe[p].st = "none"
  /\ \A q \in Probes : q < p => probe[q].st # "none"
  /\ probe' = [probe EXCEPT ![p] =
                 [NoProbe EXCEPT !.st = IF outcome = "enoent" THEN "failed" ELSE "running",
                                 !.code = ProbeCode(outcome)]]
  /\ ticks' = IF outcome = "enoent" THEN Append(ticks, <<"probeError", p>>) ELSE ticks
  /\ UNCHANGED <<exited, frontend, streams, nextId, wss, ffmpeg, totalBytes, emitted,
                 viewers, crashed, resp, okStarts>>

\* ffmpeg.on('error', () => ...): the spawn failed; answers available: false
ProbeError(p) ==
  /\ ~crashed
  /\ ticks # <<>>
  /\ Head(ticks) = <<"probeError", p>>
  /\ ticks' = Tail(ticks)
  /\ probe' = [probe EXCEPT ![p] = ProbeWrite([@ EXCEPT !.st = "errored"], FALSE)]
  /\ UNCHANGED <<exited, frontend, streams, nextId, wss, ffmpeg, totalBytes, emitted,
                 viewers, crashed, resp, okStarts>>

\* ffmpeg.on('close', (code) => ...): the process ended, or the failed spawn
\* is closed after its 'error'; answers available: code === 0.  The throw
\* of a second writeHead is not caught by anything: the server dies.
ProbeClose(p) ==
  /\ Idle
  /\ probe[p].st \in {"running", "errored"}
  /\ probe' = [probe EXCEPT ![p] = ProbeWrite([@ EXCEPT !.st = "closed"], probe[p].code = 0)]
  /\ IF HeadersSent(probe[p])
     THEN /\ crashed' = TRUE
          /\ streams' = EmptyMap
          /\ wss' = [i \in Ids |-> IF wss[i].st = "none" THEN wss[i]
                                   ELSE [wss[i] EXCEPT !.st = "closed"]]
          /\ viewers' = [v \in Viewers |-> IF viewers[v].readyState \in {1, 2}
                                           THEN [viewers[v] EXCEPT !.readyState = 3]
                                           ELSE viewers[v]]
          /\ okStarts' = [k \in Keys |-> 0]
     ELSE UNCHANGED <<crashed, streams, wss, viewers, okStarts>>
  /\ UNCHANGED <<exited, frontend, nextId, ffmpeg, totalBytes, emitted, ticks, resp>>

\* ------------------------------------------------------------ /api/streams
\* ws_url: `ws://127.0.0.1:${port}` in an entry of the list
\* (faulty variant: the list names the host differently)
ListWsUrlLocalhost(port) == <<"ws://localhost:", PortText(port)>>

ListWsUrl(port) == <<"ws://127.0.0.1:", PortText(port)>>

\* ([port, info]) => ({ port, rtsp_url: info.rtspUrl, ws_url, active: true })
ListEntry(port) ==
  [port |-> port, rtsp_url |-> streams[port].rtspUrl,
   ws_url |-> ListWsUrl(port), active |-> TRUE]

\* GET /api/streams: the entries of the Map, one object each; the response
\* is the bare array, taken here as the set of its elements
ListStreams ==
  /\ Idle
  /\ resp' = [op |-> "list", list |-> { ListEntry(port) : port \in DOMAIN streams }]
  /\ UNCHANGED <<probe, exited, frontend, streams, nextId, wss, ffmpeg, totalBytes, emitted, viewers,
                 ticks, crashed, okStarts>>

\* ------------------------------------------------------- malformed request
\* JSON.parse(body) throws, or the body is not an object: the handler's
\* catch answers 400 { success: false, message: e.message }
BadBody(op) ==
  [op |-> op, key |-> NoResp.key, success |-> FALSE, msg |-> "exception"]

MalformedRequest(op) ==
  /\ Idle
  /\ resp' = BadBody(op)
  /\ UNCHANGED <<probe, exited, frontend, streams, nextId, wss, ffmpeg, totalBytes, emitted, viewers,
                 ticks, crashed, okStarts>>

\* ------------------------------------------------------------- RTSPPlayer
\* The component with the initializingRef guard.  `effect` is the run of the
\* effect whose cleanup React still holds (0: none), `timers` the pending
\* setTimeout callbacks, each the initPlayer closure of one effect run.

\* cleanup(): destroy the referenced player, clear both refs
Cleanup(pl) ==
  [pl EXCEPT !.alive = @ \ {pl.playerRef},
             !.playerRef = 0,
             !.initializing = FALSE]

\* the effect runs: on mount, on the re-mount of StrictMode, after wsUrl
\* changed.  A run that finds the guard set returns no cleanup.
EffectRun ==
  /\ player.effect = 0
  /\ player.runs < MaxEffects
  /\ player' =
       IF player.initializing \/ player.playerRef # 0
       THEN [player EXCEPT !.runs = @ + 1]
       ELSE [player EXCEPT !.runs = @ + 1,
                           !.effect = player.runs + 1,
                           !.initializing = TRUE,
                           !.timers = @ \cup {<<"init", player.runs + 1>>}]
  /\ UNCHANGED <<backend, cameras, now, gate>>

\* the function the effect returned: clearTimeout(initTimeout), the two
\* clearInterval, cleanup().  The timers initPlayer set itself are not
\* cleared here.
EffectCleanup ==
  /\ player.effect # 0
  /\ player' = [Cleanup(player) EXCEPT !.effect = 0,
                                       !.timers = @ \ {<<"init", player.effect>>}]
  /\ UNCHANGED <<backend, cameras, now, gate>>

\* the JSMpeg script has finished loading
LoadJSMpeg ==
  /\ ~player.loaded
  /\ player' = [player EXCEPT !.loaded = TRUE]
  /\ UNCHANGED <<backend, cameras, now, gate>>

\* initPlayer of effect run e, called by a timer
InitPlayer(pl, e) ==
  IF ~pl.loaded
  THEN [pl EXCEPT !.timers = @ \cup {<<"poll", e>>}]
  ELSE IF ~pl.initializing
  THEN pl
  ELSE [pl EXCEPT !.created = @ + 1,
                  !.alive = @ \cup {pl.created + 1},
                  !.playerRef = pl.created + 1]

TimerFire(t) ==
  /\ t \in player.timers
  /\ player' = InitPlayer([player EXCEPT !.timers = @ \ {t}], t[2])
  /\ UNCHANGED <<backend, cameras, now, gate>>

\* ------------------------------------------------------------ camera list
\* Starting port for WebSocket connections
BASE_WS_PORT == 9900

\* (faulty variant: the port is derived from the length of the list)
GetNextPortByCount(cs) == BASE_WS_PORT + Len(cs)

\* let port = BASE_WS_PORT; while (usedPorts.includes(port)) port++
RECURSIVE ScanPort(_, _)
ScanPort(usedPorts, port) ==
  IF port \in usedPorts THEN ScanPort(usedPorts, port + 1) ELSE port

\* getNextPort(cameras)
GetNextPort(cs) ==
  IF Len(cs) = 0
  THEN BASE_WS_PORT
  ELSE ScanPort({ cs[i].wsPort : i \in 1..Len(cs) }, BASE_WS_PORT)

\* prev.filter(c => c.id !== id)
RECURSIVE FilterId(_, _)
FilterId(cs, id) ==
  IF cs = <<>> THEN <<>>
  ELSE IF Head(cs).id = id THEN FilterId(Tail(cs), id)
  ELSE <<Head(cs)>> \o FilterId(Tail(cs), id)

\* wsUrl: null
NoUrl == <<>>

\* addCamera with the form filled in: the handler sees the list of the last
\* render, and its update is rendered before the next event
AddCamera ==
  /\ Len(cameras.list) < MaxCameras
  /\ cameras' = [cameras EXCEPT !.list =
                   Append(@, [id |-> now, wsPort |-> GetNextPort(cameras.list),
                              active |-> FALSE, wsUrl |-> NoUrl])]
  /\ UNCHANGED <<backend, player, now, gate>>

\* removeCamera(camera): an inactive camera is filtered out at once, for an
\* active one the handler first awaits stopStream
RemoveCamera(i, active) ==
  /\ i \in 1..Len(cameras.list)
  /\ cameras' = IF active
                THEN [cameras EXCEPT !.removing = @ \cup {cameras.list[i].id}]
                ELSE [cameras EXCEPT !.list = FilterId(@, cameras.list[i].id)]
  /\ UNCHANGED <<backend, player, now, gate>>

\* the awaited stopStream has returned: setCameras(prev => prev.filter(...))
RemoveAfterStop(id) ==
  /\ id \in cameras.removing
  /\ cameras' = [cameras EXCEPT !.list = FilterId(@, id),
                                 !.removing = @ \ {id}]
  /\ UNCHANGED <<backend, player, now, gate>>

\* prev.map(c => c.id === id ? { ...c, active, wsUrl } : c)
SetStream(cs, id, active, wsUrl) ==
  [i \in 1..Len(cs) |->
     IF cs[i].id = id
     THEN [cs[i] EXCEPT !.active = active, !.wsUrl = wsUrl]
     ELSE cs[i]]

\* What `response` can be after the awaits of startStream(camera): the result
\* of the server's start for camera.wsPort, or the fetch or res.json() threw.
Thrown == [op |-> "throw", success |-> FALSE]

StartReplies(call) ==
  { StartOk(<<"number", call.wsPort>>), Thrown }
    \cup { StartFail(<<"number", call.wsPort>>, why) : why \in {"already_active", "start_failed"} }

\* startStream(camera) up to its await: the Start button is rendered for a
\* camera that is not active, and startAllOnPage skips the active ones
StartStream(i) ==
  /\ i \in 1..Len(cameras.list)
  /\ ~cameras.list[i].active
  /\ Cardinality(cameras.calls) < MaxCalls
  /\ cameras' = [cameras EXCEPT !.calls = @ \cup
                   {[op |-> "start", id |-> cameras.list[i].id,
                     wsPort |-> cameras.list[i].wsPort]}]
  /\ UNCHANGED <<backend, player, now, gate>>

\* startStream(camera) after the await: if (response?.success) setCameras(...)
StartReply(call, response) ==
  /\ call \in cameras.calls
  /\ call.op = "start"
  /\ cameras' = [cameras EXCEPT
                   !.calls = @ \ {call},
                   !.list = IF response.success
                            THEN SetStream(@, call.id, TRUE, response.ws_url)
                            ELSE @]
  /\ UNCHANGED <<backend, player, now, gate>>

\* stopStream(camera) up to its await: the Stop button is rendered for an
\* active camera, and stopAllOnPage skips the others
StopStream(i) ==
  /\ i \in 1..Len(cameras.list)
  /\ cameras.list[i].active
  /\ Cardinality(cameras.calls) < MaxCalls
  /\ cameras' = [cameras EXCEPT !.calls = @ \cup
                   {[op |-> "stop", id |-> cameras.list[i].id,
                     wsPort |-> cameras.list[i].wsPort]}]
  /\ UNCHANGED <<backend, player, now, gate>>

\* stopStream(camera) after the await: the response is not looked at; a
\* fetch that threw leaves the list as it is
StopReply(call, thrown) ==
  /\ call \in cameras.calls
  /\ call.op = "stop"
  /\ cameras' = [cameras EXCEPT
                   !.calls = @ \ {call},
                   !.list = IF thrown THEN @
                            ELSE SetStream(@, call.id, FALSE, NoUrl)]
  /\ UNCHANGED <<backend, player, now, gate>>

\* a millisecond passes
Tick ==
  /\ now < MaxClock
  /\ now' = now + 1
  /\ UNCHANGED <<backend, player, cameras, gate>>

\* ------------------------------------------------------------ GateControl
\* What the fetch of a gate command comes to: an HTTP status with a body
\* (JSON with state true, JSON with another or no state, not JSON), the
\* 3 s timeout (status -1) or a network error (status -2).
Replies ==
  ([status : {200, 201, 404, 500}, body : {"true", "false", "text"}])
    \cup { [status |-> -1, body |-> "none"], [status |-> -2, body |-> "none"] }

\* response.ok
Ok(reply) == reply.status >= 200 /\ reply.status <= 299

\* data.state === true ? 'OPEN' : 'CLOSED'
NewState(reply) == IF reply.body = "true" THEN "OPEN" ELSE "CLOSED"

\* operation === 'open' ? 'OPEN' : 'CLOSED'
SimulatedState(operation) == IF operation = "open" THEN "OPEN" ELSE "CLOSED"

\* the selector and the buttons are disabled while isLoading
SelectGate(g) ==
  /\ ~gate.loading
  /\ gate.selected # g
  /\ gate' = [gate EXCEPT !.selected = g]
  /\ UNCHANGED <<backend, player, cameras, now>>

\* controlGate(operation) up to the await of fetch
ControlGate(operation) ==
  /\ ~gate.loading
  /\ Len(gate.log) + 3 <= MaxLog
  /\ gate' = [gate EXCEPT !.loading = TRUE,
                          !.gateId = gate.selected,
                          !.operation = operation,
                          !.reply = NoReply,
                          !.log = Append(@, "info")]
  /\ UNCHANGED <<backend, player, cameras, now>>

\* controlGate after the await: the branches of try / catch / finally
GateReply(reply) ==
  /\ gate.loading
  /\ gate' =
       [gate EXCEPT
          !.loading = FALSE,
          !.reply = reply,
          !.status =
            IF Ok(reply) /\ reply.body # "text"
            THEN [@ EXCEPT ![gate.gateId] = NewState(reply)]
            ELSE IF reply.status = 404
            THEN [@ EXCEPT ![gate.gateId] = SimulatedState(gate.operation)]
            ELSE @,
          !.log =
            IF Ok(reply) /\ reply.body # "text" THEN Append(@, "success")
            ELSE IF reply.status = 404 THEN @ \o <<"error", "info">>
            ELSE Append(@, "error")]
  /\ UNCHANGED <<backend, player, cameras, now>>

\* clearConsole
ClearConsole ==
  /\ gate.log # <<>>
  /\ gate' = [gate EXCEPT !.log = <<>>]
  /\ UNCHANGED <<backend, player, cameras, now>>

\* ---------------------------------------------------------- specifications
\* The control plane: requests, child-process events, the tick queue.
Next ==
  \/ \E u \in Urls, k \in Keys, l \in Launches : StartRequest(u, k, l)
  \/ \E k \in Keys : StopRequest(k)
  \/ \E op \in {"start", "stop"} : MalformedRequest(op)
  \/ Crash
  \/ \E i \in Ids : OnError(i)
  \/ \E i \in Ids : ProcExit(i)
  \/ \E i \in Ids : OnClose(i)
  \/ \E i \in Ids : WssClosed(i)

Spec == Init /\ [][Next]_vars

\* The fan-out of one port: a session, its viewers and its chunks.
RelayKey == <<"number", 9900>>

NextRelay ==
  \/ nextId < MaxRelaySessions /\ StartRequest("rtsp://cam1", RelayKey, "ok")
  \/ StopRequest(RelayKey)
  \/ \E i \in Ids : ProcExit(i)
  \/ \E i \in Ids : OnClose(i)
  \/ \E i \in Ids : OnData(i)
  \/ \E v \in Viewers, i \in Ids : Connect(v, i)
  \/ \E v \in Viewers : Closing(v)
  \/ \E v \in Viewers : Disconnect(v)
  \/ \E i \in Ids : WssClosed(i)

SpecRelay == Init /\ [][NextRelay]_vars

\* The fan-out of one session to viewers that may stop reading.
NextSlow ==
  \/ nextId = 0 /\ StartRequest("rtsp://cam1", RelayKey, "ok")
  \/ \E i \in Ids : OnData(i)
  \/ \E v \in Viewers, i \in Ids : Connect(v, i)
  \/ \E v \in Viewers : Stall(v)
  \/ \E v \in Viewers : Resume(v)
  \/ \E v \in Viewers : Disconnect(v)

SpecSlow == Init /\ [][NextSlow]_vars

\* Sessions side by side and one after another on two ports, with viewers.
OwnKeys == { <<"number", 9900>>, <<"number", 9901>> }

NextOwn ==
  \/ \E k \in OwnKeys : StartRequest("rtsp://cam1", k, "ok")
  \/ \E k \in OwnKeys : StopRequest(k)
  \/ \E i \in Ids : Len(emitted[i]) < MaxOwnChunks /\ OnData(i)
  \/ \E v \in 1..MaxOwnViewers, i \in Ids : Connect(v, i)
  \/ \E v \in Viewers : Disconnect(v)

SpecOwn == Init /\ [][NextOwn]_vars

\* Starting, stopping and listing sessions whose ports arrive as a number
\* and as a string.
ListKeys == { <<"number", 9900>>, <<"string", 9901>> }

NextList ==
  \/ \E u \in Urls, k \in ListKeys : StartRequest(u, k, "ok")
  \/ \E k \in ListKeys : StopRequest(k)
  \/ \E i \in Ids : ProcExit(i)
  \/ \E i \in Ids : OnClose(i)
  \/ ListStreams

SpecList == Init /\ [][NextList]_vars

\* The availability probe beside one session.
NextProbe ==
  \/ \E p \in Probes, o \in ProbeOutcomes : CheckFfmpeg(p, o)
  \/ \E p \in Probes : ProbeError(p)
  \/ \E p \in Probes : ProbeClose(p)
  \/ StartRequest("rtsp://cam1", RelayKey, "ok")
  \/ StopRequest(RelayKey)
  \/ \E i \in Ids : ProcExit(i)
  \/ \E i \in Ids : OnClose(i)

SpecProbe == Init /\ [][NextProbe]_vars

\* One mounted RTSPPlayer.
NextPlayer ==
  \/ EffectRun
  \/ EffectCleanup
  \/ LoadJSMpeg
  \/ \E t \in {"init", "poll"} \X (1..MaxEffects) : TimerFire(t)

SpecPlayer == Init /\ [][NextPlayer]_vars

\* The camera list of the App page.
NextCameras ==
  \/ AddCamera
  \/ \E i \in 1..MaxCameras, a \in BOOLEAN : RemoveCamera(i, a)
  \/ \E id \in 0..MaxClock : RemoveAfterStop(id)
  \/ Tick

SpecCameras == Init /\ [][NextCameras]_vars

\* The streams of the cameras of the App page: cameras are added and
\* removed, started and stopped, and the responses arrive in any order.
NextCameraStreams ==
  \/ AddCamera
  \/ Tick
  \/ \E i \in 1..Len(cameras.list) : ~cameras.list[i].active /\ RemoveCamera(i, FALSE)
  \/ \E i \in 1..MaxCameras : StartStream(i)
  \/ \E c \in cameras.calls : \E r \in StartReplies(c) : StartReply(c, r)
  \/ \E i \in 1..MaxCameras : StopStream(i)
  \/ \E c \in cameras.calls, thrown \in BOOLEAN : StopReply(c, thrown)

SpecCameraStreams == Init /\ [][NextCameraStreams]_vars

\* The GateControl page.
NextGate ==
  \/ \E g \in Gates : SelectGate(g)
  \/ \E op \in {"open", "close"} : ControlGate(op)
  \/ \E r \in Replies : GateReply(r)
  \/ ClearConsole

SpecGate == Init /\ [][NextGate]_vars

\* A session on a port of its own beside start requests for the API's port.
CrossKeys == { <<"number", 9901>>, <<"number", API_PORT>> }

NextCross ==
  \/ \E u \in Urls, k \in CrossKeys : StartRequest(u, k, "ok")
  \/ \E k \in CrossKeys : StopRequest(k)
  \/ Crash
  \/ \E i \in Ids : ProcExit(i)
  \/ \E i \in Ids : OnClose(i)
  \/ \E i \in Ids : WssClosed(i)

SpecCross == Init /\ [][NextCross]_vars

\* The fan-out of one session to viewers that connect, close and leave.
NextOpen ==
  \/ nextId = 0 /\ StartRequest("rtsp://cam1", RelayKey, "ok")
  \/ StopRequest(RelayKey)
  \/ \E i \in Ids : OnData(i)
  \/ \E v \in Viewers, i \in Ids : Connect(v, i)
  \/ \E v \in Viewers : Closing(v)
  \/ \E v \in Viewers : Disconnect(v)

SpecOpen == Init /\ [][NextOpen]_vars

\* Sessions on several ports, processes that end or fail to launch, and the
\* interrupt signal.
SigintKeys == { <<"number", 9900>>, <<"number", 9901>>, <<"number", 70000>> }

NextSigint ==
  \/ \E u \in Urls, k \in SigintKeys, l \in {"ok", "enoent"} : StartRequest(u, k, l)
  \/ \E i \in Ids : OnError(i)
  \/ \E i \in Ids : ProcExit(i)
  \/ \E i \in Ids : OnClose(i)
  \/ SigInt

SpecSigint == Init /\ [][NextSigint]_vars

\* The control plane under the event loop's scheduling: a queued tick runs,
\* and the 'close' of a process that has ended is delivered.
LiveKeys == { <<"number", 9900>>, <<"string", 9900>> }

NextLive ==
  \/ \E k \in LiveKeys, l \in Launches : StartRequest("rtsp://cam1", k, l)
  \/ \E k \in LiveKeys : StopRequest(k)
  \/ Crash
  \/ \E i \in Ids : OnError(i)
  \/ \E i \in Ids : ProcExit(i)
  \/ \E i \in Ids : OnClose(i)
  \/ \E i \in Ids : WssClosed(i)

FairSpec ==
  /\ Init /\ [][NextLive]_vars
  /\ WF_vars(Crash)
  /\ \A i \in Ids : WF_vars(OnError(i)) /\ WF_vars(OnClose(i))

\* ------------------------------------------------------------------ claims
\* the session of process id is in the registry
Registered(id) == \E k \in DOMAIN streams : streams[k].ffmpeg = id

Created(id) == ffmpeg[id].st # "none"

C3_OnlyOwnEventsDestroy ==
  [][\A k \in DOMAIN streams :
       (k \notin DOMAIN streams' \/ streams'[k] # streams[k]) =>
         \/ StopRequest(k)
         \/ OnClose(streams[k].ffmpeg)
         \/ OnError(streams[k].ffmpeg)
         \/ crashed']_vars

\* C4: a start that directly follows the successful stop of its key finds
\* the key free and the port unbound: the new server listens, and (spawn not
\* throwing) the start succeeds with the new source.
C4_RestartAfterStop ==
  [][\A u \in Urls, l \in Launches :
       LET k == resp.key IN
       (resp = StopOk(k) /\ StartRequest(u, k, l)) =>
         /\ k \notin DOMAIN streams
         /\ wss'[nextId'].st = "listening"
         /\ wss'[nextId'].key = k
         /\ l # "throw" => /\ resp' = StartOk(k)
                           /\ streams'[k].rtspUrl = u
                           /\ streams'[k].wss = nextId']_vars

\* the key was restarted while the stopped session's process is still ending
C4_Witness ==
  \E k \in DOMAIN streams :
    /\ resp = StartOk(k)
    /\ wss[streams[k].wss].st = "listening"
    /\ \E old \in Ids :
         /\ old < streams[k].wss
         /\ wss[old].key = k /\ wss[old].closeCalls = 1
         /\ ffmpeg[old].st = "running" /\ ffmpeg[old].signalled

\* C5: once the process of a registered session has ended or failed to
\* start, the session eventually leaves the registry and its server stops
\* listening.
C5_ExitTearsDown ==
  \A id \in Ids :
    (ffmpeg[id].st \in {"exited", "failed"} /\ Registered(id))
      ~> (~Registered(id) /\ wss[id].st # "listening")

\* the process ended unsignalled and its 'close' tore the session down
C5_Witness ==
  \E id \in Ids :
    /\ ffmpeg[id].st = "closed" /\ ~ffmpeg[id].signalled
    /\ ffmpeg[id].killCalls = 1
    /\ ~Registered(id) /\ wss[id].st \in {"closing", "closed"}
    /\ ~crashed

\* the chunks process id emitted after position n
After(id, n) == SubSeq(emitted[id], n + 1, Len(emitted[id]))

\* C6: an open viewer has received exactly the chunks its session's process
\* emitted since the viewer connected, in order, and two open viewers of a
\* session agree on the chunks emitted since the later one connected.
C6_SameOrderedSuffix ==
  /\ \A v \in Viewers :
       viewers[v].readyState = 1 =>
         viewers[v].received = After(viewers[v].relay, viewers[v].joinedAt)
  /\ \A v, w \in Viewers :
       ( /\ viewers[v].readyState = 1 /\ viewers[w].readyState = 1
         /\ viewers[v].relay = viewers[w].relay
         /\ viewers[v].joinedAt <= viewers[w].joinedAt ) =>
         /\ Len(viewers[w].received) <= Len(viewers[v].received)
         /\ viewers[w].received =
              SubSeq(viewers[v].received,
                     Len(viewers[v].received) - Len(viewers[w].received) + 1,
                     Len(viewers[v].received))

C6_Witness ==
  \E v, w \in Viewers :
    /\ viewers[v].readyState = 1 /\ viewers[w].readyState = 1
    /\ viewers[v].relay = viewers[w].relay
    /\ viewers[v].joinedAt = 0 /\ viewers[w].joinedAt = 1
    /\ Len(viewers[v].received) = 2 /\ Len(viewers[w].received) = 1

\* C7: a connected viewer holds no chunk emitted before it connected: none
\* of the first joinedAt chunks of its session is among what it received,
\* and it received no more chunks than were emitted since.
C7_NoReplay ==
  \A v \in Viewers :
    viewers[v].readyState \in {1, 2} =>
      /\ Len(viewers[v].received) <= Len(emitted[viewers[v].relay]) - viewers[v].joinedAt
      /\ \A i \in 1..Len(viewers[v].received) :
           \A j \in 1..viewers[v].joinedAt :
             viewers[v].received[i] # emitted[viewers[v].relay][j]

\* connected after the first chunk, the viewer holds the second chunk only
C7_Witness ==
  \E v \in Viewers :
    /\ viewers[v].readyState = 1
    /\ viewers[v].joinedAt = 1
    /\ viewers[v].received = << Chunk(viewers[v].relay, 2) >>

\* C8: a stop request for a key with no registry entry answers "not found"
\* with success false and changes nothing else.
C8_StopAbsentIsNoop ==
  [][LET k == resp'.key IN
       (StopRequest(k) /\ k \notin DOMAIN streams) =>
         /\ resp' = StopNotFound(k)
         /\ UNCHANGED <<streams, nextId, wss, ffmpeg, totalBytes, emitted,
                        viewers, ticks, crashed>>]_vars

\* the stop of a key whose session had already been stopped
C8_Witness ==
  /\ resp.op = "stop" /\ ~resp.success /\ resp.msg = "not_found"
  /\ \E id \in Ids : ffmpeg[id].wsPort = resp.key /\ ffmpeg[id].signalled
  /\ resp.key \notin DOMAIN streams

\* C9: a stop request answered with success has, in the same step, called
\* kill on the session's process (signalling it if it still runs), closed
\* the session's server so that it no longer listens, and deleted the key;
\* the response carries the key, and the key stays absent while that
\* response is the last one.
C9_StopSuccessMeansReleased ==
  /\ []((resp.op = "stop" /\ resp.success) => resp.key \notin DOMAIN streams)
  /\ [][LET k == resp'.key IN
          (StopRequest(k) /\ resp'.success) =>
            /\ k \in DOMAIN streams
            /\ resp'.key = k
            /\ k \notin DOMAIN streams'
            /\ LET p == streams[k].ffmpeg
                   w == streams[k].wss
               IN /\ ffmpeg'[p].killCalls = ffmpeg[p].killCalls + 1
                  /\ ffmpeg[p].st = "running" => ffmpeg'[p].signalled
                  /\ wss'[w].closeCalls = wss[w].closeCalls + 1
                  /\ wss'[w].st # "listening"]_vars

\* success was reported while the signalled process has not yet exited
C9_Witness ==
  /\ resp.op = "stop" /\ resp.success
  /\ \E id \in Ids :
       /\ ffmpeg[id].wsPort = resp.key
       /\ ffmpeg[id].st = "running" /\ ffmpeg[id].signalled
       /\ wss[id].st = "closing"

\* processes of key k that have not exited / servers that have not finished closing
Unexited(k) == { id \in Ids : ffmpeg[id].wsPort = k /\ ffmpeg[id].st = "running" }

Unclosed(k) == { id \in Ids : wss[id].key = k /\ wss[id].st \in {"listening", "closing"} }

C11_ListenerImpliesRegistered ==
  \A id \in Ids :
    wss[id].st = "listening" =>
      /\ wss[id].key \in DOMAIN streams
      /\ streams[wss[id].key].wss = id

\* C12: a start whose spawn fails (asynchronously or by throwing) does not
\* report success and leaves the registry as it was.
C12_FailedLaunchNotRegistered ==
  [][\A u \in Urls, l \in Launches \ {"ok"} :
       LET k == resp'.key IN
       (resp'.op = "start" /\ StartRequest(u, k, l))
         => ~resp'.success /\ streams' = streams]_vars

\* C13: a start for a free key whose port is already bound reports a
\* failure, registers nothing and spawns nothing.
C13_BindFailureSurfaced ==
  [][\A u \in Urls, l \in Launches :
       LET k == resp'.key IN
       (/\ resp'.op = "start"
        /\ ~AlreadyActive(k) /\ ValidPort(k) /\ PortBound(ToPort(k))
        /\ StartRequest(u, k, l))
         => ~resp'.success /\ streams' = streams /\ ffmpeg' = ffmpeg]_vars

\* C14: every request is answered by one result carrying a success flag and
\* a message, and no failure is thrown outside a request handler.
C14_NoUnhandledException ==
  /\ ~crashed
  /\ \A t \in 1..Len(ticks) : ticks[t][1] # "wssError"
  /\ resp.op # "none" =>
       resp.success \in BOOLEAN /\ resp.msg \in {"started", "stopped",
                                                 "in_use", "not_found", "exception"}

\* C15: publishing never waits on a viewer: every 'data' event records the
\* chunk and, in the same step, hands it to every open viewer of the
\* session; a viewer that reads gets it at once even while another viewer
\* of the session does not read, and the one that does not read has it
\* queued behind what is already pending.
C15_PublishNeverWaits ==
  [][\A id \in Ids :
       OnData(id) =>
         LET data == emitted'[id][Len(emitted'[id])] IN
         /\ Len(emitted'[id]) = Len(emitted[id]) + 1
         /\ \A v \in Viewers :
              (viewers[v].relay = id /\ viewers[v].readyState = 1) =>
                IF viewers[v].stalled
                THEN viewers'[v].pending = Append(viewers[v].pending, data)
                ELSE viewers'[v].received = Append(viewers[v].received, data)]_vars

\* a viewer that does not read holds a pending chunk which a later-numbered
\* viewer of the same session has already received
C15_Witness ==
  \E u, v \in Viewers :
    /\ u < v
    /\ viewers[u].relay = viewers[v].relay
    /\ viewers[u].readyState = 1 /\ viewers[v].readyState = 1
    /\ viewers[u].stalled /\ ~viewers[v].stalled
    /\ viewers[u].pending # <<>>
    /\ \E i \in 1..Len(viewers[v].received) :
         viewers[v].received[i] = viewers[u].pending[Len(viewers[u].pending)]

\* C16: a viewer whose outbound queue cannot take a chunk is dropped, so the
\* data pending for an open viewer never exceeds the queue's capacity.
C16_PendingBounded ==
  \A v \in Viewers :
    viewers[v].readyState = 1 => Len(viewers[v].pending) <= OutboundCap

\* C17: shutting a relay down closes every viewer connection with the
\* listening socket: no viewer is connected to a relay that is not
\* listening, so no session that was shut down has a connected viewer.
C17_ShutdownClosesViewers ==
  \A v \in Viewers :
    viewers[v].readyState \in {1, 2} => wss[viewers[v].relay].st = "listening"

\* C18: a process is spawned, and a key enters the registry, only in a
\* start request that reaches the launch step; nothing is spawned again
\* after a failure or a stop, so the processes ever spawned are at most the
\* starts that reached the launch.
C18_SpawnOnlyByStart ==
  /\ [](Cardinality({ id \in Ids : Created(id) }) <= nextId)
  /\ [][(\/ \E id \in Ids : /\ ffmpeg'[id].st = "running"
                            /\ ffmpeg[id].st # "running"
         \/ \E id \in Ids : Created(id)' /\ ~Created(id)
         \/ ~(DOMAIN streams' \subseteq DOMAIN streams))
          => /\ resp'.op = "start"
             /\ nextId' = nextId + 1
             /\ \E u \in Urls, l \in Launches : StartRequest(u, resp'.key, l)]_vars

\* a session has failed or was stopped and its process is gone: its key is
\* free and nothing has been spawned for it since
C18_Witness ==
  \E id \in Ids :
    /\ ffmpeg[id].st = "closed"
    /\ ffmpeg[id].wsPort \notin DOMAIN streams
    /\ \A j \in Ids : j # id => ~Created(j)
    /\ nextId = 1

\* the process that wrote a chunk (Chunk(id, n) names it in every byte)
Origin(data) == data[1] \div 10

\* C19: a viewer belongs to the one session whose server accepted it for as
\* long as it is connected, and every chunk it holds was written by that
\* session's process: never by the process of another port, nor by that of
\* a later session on the same port.
C19_OnlyOwnSession ==
  /\ [](\A v \in Viewers :
          viewers[v].readyState \in {1, 2} =>
            \A i \in 1..Len(viewers[v].received) :
              /\ Origin(viewers[v].received[i]) = viewers[v].relay
              /\ \E n \in 1..Len(emitted[viewers[v].relay]) :
                   viewers[v].received[i] = emitted[viewers[v].relay][n])
  /\ [][\A v \in Viewers :
          (viewers[v].readyState \in {1, 2} /\ viewers'[v].readyState \in {1, 2})
            => viewers'[v].relay = viewers[v].relay]_vars

\* a viewer of a stopped session is still connected and holds a chunk while
\* the later session on the same port has written one too
C19_Witness ==
  \E v \in Viewers, id \in Ids :
    /\ viewers[v].readyState = 1
    /\ viewers[v].received # <<>>
    /\ id > viewers[v].relay
    /\ wss[id].key = wss[viewers[v].relay].key
    /\ emitted[id] # <<>>

\* C20: the list holds exactly one entry per key of the registry and none
\* for any other key; an entry carries the key, the URL stored at start,
\* active = true and a stream URL that is "ws://127.0.0.1:" followed by the
\* port's text, which is also the URL a successful start returns.
C20_ListIsSnapshot ==
  [][/\ ListStreams =>
          /\ { e.port : e \in resp'.list } = DOMAIN streams
          /\ Cardinality(resp'.list) = Cardinality(DOMAIN streams)
          /\ \A e \in resp'.list :
               /\ e.rtsp_url = streams[e.port].rtspUrl
               /\ e.active
               /\ e.ws_url = <<"ws://127.0.0.1:", e.port[2]>>
               /\ e.ws_url = StartOk(e.port).ws_url
     /\ (resp'.op = "start" /\ resp' # resp /\ resp'.success) =>
          /\ resp'.ws_url = <<"ws://127.0.0.1:", resp'.key[2]>>
          /\ \E u \in Urls : streams'[resp'.key].rtspUrl = u /\ StartRequest(u, resp'.key, "ok")
    ]_vars

\* after a session was removed and another started with a string port, the
\* list holds the one that is left
C20_Witness ==
  /\ resp.op = "list"
  /\ nextId = 2
  /\ DOMAIN streams = { <<"string", 9901>> }
  /\ \E e \in resp.list : e.port = <<"string", 9901>> /\ e.ws_url = <<"ws://127.0.0.1:", 9901>>
  /\ Cardinality(resp.list) = 1

\* C21: every registry key is a positive integer port, and no two registry
\* entries stand for the same network port.
C21_KeysAreDistinctPorts ==
  /\ \A k \in DOMAIN streams : k[1] = "number" /\ k[2] > 0 /\ k[2] <= 65535
  /\ \A k1, k2 \in DOMAIN streams : ToPort(k1) = ToPort(k2) => k1 = k2

\* C22: a session enters the registry (Streaming) only as a new session
\* whose process was launched and whose server is bound, it leaves it only
\* by a stop request for its key or by the exit or error of its own process
\* (the death of the whole server aside), and it never enters it again.
C22_SessionStateMachine ==
  [][\A id \in Ids :
       /\ (Registered(id)' /\ ~Registered(id)) =>
            /\ wss[id].st = "none"
            /\ ffmpeg'[id].st = "running"
            /\ wss'[id].st = "listening"
       /\ (Registered(id) /\ ~Registered(id)') =>
            \/ StopRequest(ffmpeg[id].wsPort)
            \/ OnClose(id)
            \/ OnError(id)
            \/ crashed']_vars

\* C23: a check request is answered once, with true exactly when the probe
\* exited with code 0, and its 'error' and 'close' callbacks together write
\* to the response only once.
C23_OneAnswerPerProbe ==
  \A p \in Probes :
    /\ probe[p].writes <= 1
    /\ probe[p].st = "closed" =>
         probe[p].writes = 1 /\ probe[p].answer = << probe[p].code = 0 >>

\* C24: a mounted RTSPPlayer never has two players alive, and a player is
\* created only while no player is referenced.
C24_OnePlayerAlive ==
  /\ Cardinality(player.alive) <= 1
  /\ player.alive \subseteq {player.playerRef}

\* the ports of the cameras in the list
UsedPorts == { cameras.list[i].wsPort : i \in 1..Len(cameras.list) }

\* C25: a camera that is added gets the smallest port from 9900 up that no
\* camera in the list uses, and no two cameras in the list share a port.
C25_PortsDistinct ==
  /\ [](\A i, j \in 1..Len(cameras.list) :
          cameras.list[i].wsPort = cameras.list[j].wsPort => i = j)
  /\ [][AddCamera =>
          LET port == cameras'.list[Len(cameras'.list)].wsPort IN
          /\ port >= 9900
          /\ port \notin UsedPorts
          /\ \A q \in 9900..(port - 1) : q \in UsedPorts]_vars

\* after a removal the freed port 9900 was given to the camera added next,
\* which stands behind the camera on 9901
C25_Witness ==
  /\ Len(cameras.list) = 2
  /\ cameras.list[1].wsPort = 9901
  /\ cameras.list[2].wsPort = 9900

\* C26: the reply to a gate command changes the status of the gate that was
\* selected when the command was sent and of no other: on HTTP 200 to OPEN
\* or CLOSED by the reply's state field, on HTTP 404 to the simulated result
\* of the operation; on a timeout, a network error or any other status the
\* statuses stay as they were and an error is logged.
C26_GateReplyEffect ==
  [][(gate.loading /\ ~gate'.loading) =>
       LET r == gate'.reply
           g == gate.selected IN
       /\ gate.gateId = g
       /\ \A other \in Gates \ {g} : gate'.status[other] = gate.status[other]
       /\ IF r.status = 200
          THEN gate'.status[g] \in {"OPEN", "CLOSED"}
               /\ (gate'.status[g] = "OPEN" <=> r.body = "true")
          ELSE IF r.status = 404
          THEN gate'.status[g] = (IF gate.operation = "open" THEN "OPEN" ELSE "CLOSED")
          ELSE /\ gate'.status = gate.status
               /\ \E i \in (Len(gate.log) + 1)..Len(gate'.log) : gate'.log[i] = "error"]_vars

\* C27: a start request for a port that has a registered session is
\* rejected, and the registry, the processes, the servers and the viewers
\* are as before: nothing is created.
C27_RejectedStartTouchesNothing ==
  [][\A u \in Urls, l \in Launches :
       LET k == resp'.key IN
       (/\ resp'.op = "start"
        /\ \E r \in DOMAIN streams : ToPort(r) = ToPort(k)
        /\ StartRequest(u, k, l))
         => /\ ~resp'.success
            /\ UNCHANGED <<streams, nextId, wss, ffmpeg, viewers>>]_vars

\* the network port an event belongs to: that of the request's key, of the
\* process, of the server
PortEvent(port) ==
  \/ /\ resp'.op \in {"start", "stop"}
     /\ ToPort(resp'.key) = port
     /\ \/ StopRequest(resp'.key)
        \/ \E u \in Urls, l \in Launches : StartRequest(u, resp'.key, l)
  \/ \E id \in Ids :
       /\ ToPort(ffmpeg[id].wsPort) = port
       /\ ProcExit(id) \/ OnClose(id) \/ OnError(id)
  \/ \E id \in Ids :
       /\ ToPort(wss[id].key) = port
       /\ \/ WssClosed(id)
          \/ ticks # <<>> /\ Head(ticks) = <<"wssError", id>> /\ Crash

\* C28: the registry entry, the process and the server of a registered
\* port change only by an event of that port: the sessions of other ports
\* stay as they are.
C28_PortsDoNotInterfere ==
  [][\A k \in DOMAIN streams :
       (\/ k \notin DOMAIN streams'
        \/ streams'[k] # streams[k]
        \/ ffmpeg'[streams[k].ffmpeg] # ffmpeg[streams[k].ffmpeg]
        \/ wss'[streams[k].wss] # wss[streams[k].wss])
         => PortEvent(ToPort(k))]_vars

\* C29: while the server runs, every listening server and every running
\* process that was not sent the termination signal is that of a registry
\* entry; after a start answered with a failure the port of the request has
\* no listener and no process outside the registry.
C29_NoOrphans ==
  ~crashed =>
    \A id \in Ids :
      /\ wss[id].st = "listening" =>
           \E k \in DOMAIN streams : streams[k].wss = id
      /\ (ffmpeg[id].st = "running" /\ ~ffmpeg[id].signalled) =>
           \E k \in DOMAIN streams : streams[k].ffmpeg = id

\* C30: a chunk goes only to the viewers of the session that are open when
\* it is published; a viewer that is closing or closed is never sent
\* anything again, and a viewer's closing or disconnect changes nothing but
\* its own connection.
C30_OnlyOpenViewers ==
  [][/\ \A id \in Ids :
          OnData(id) =>
            \A v \in Viewers :
              IF viewers[v].relay = id /\ viewers[v].readyState = 1
              THEN viewers'[v].received # viewers[v].received
              ELSE viewers'[v] = viewers[v]
     /\ \A v \in Viewers :
          /\ viewers[v].readyState \in {2, 3} =>
               /\ viewers'[v].readyState \in {2, 3}
               /\ viewers'[v].received = viewers[v].received
                  \/ viewers'[v].received = <<>>
          /\ (Closing(v) \/ Disconnect(v)) =>
               /\ UNCHANGED <<streams, wss, ffmpeg, emitted, totalBytes>>
               /\ \A u \in Viewers \ {v} : viewers'[u] = viewers[u]]_vars

\* a closing viewer missed a chunk that an open viewer of the same session,
\* connected at the same time, has received
C30_Witness ==
  \E u, v \in Viewers :
    /\ viewers[u].relay = viewers[v].relay
    /\ viewers[u].joinedAt = viewers[v].joinedAt
    /\ viewers[u].readyState = 2 /\ viewers[v].readyState = 1
    /\ Len(viewers[u].received) < Len(viewers[v].received)

\* the total size of a sequence of chunks
RECURSIVE SumLen(_)
SumLen(chunks) ==
  IF chunks = <<>> THEN 0 ELSE Len(Head(chunks)) + SumLen(Tail(chunks))

\* C31: the byte counter recorded for a session equals the total size of the
\* chunks its process has emitted so far (so it grows by each chunk's length
\* and never decreases).
C31_CounterIsTotalRelayed ==
  \A k \in DOMAIN streams :
    streams[k].totalBytes = SumLen(emitted[streams[k].ffmpeg])

\* C32: the SIGINT handler stops every session that is in the registry when
\* it runs (its process gets the kill call, and the signal if it still runs;
\* its relay is closed; its entry is deleted), so the registry is empty when
\* process.exit is called, however many sessions there are.
C32_SigintStopsAll ==
  [][SigInt =>
       /\ exited'
       /\ streams' = EmptyMap
       /\ \A k \in DOMAIN streams :
            LET p == streams[k].ffmpeg
                w == streams[k].wss
            IN  /\ ffmpeg'[p].killCalls = ffmpeg[p].killCalls + 1
                /\ ffmpeg[p].st = "running" => ffmpeg'[p].signalled
                /\ wss'[w].closeCalls = wss[w].closeCalls + 1
                /\ wss'[w].st # "listening"]_vars

\* the process has exited with an empty registry after two running sessions
\* on different ports were signalled and their relays closed
C32_Witness ==
  /\ exited
  /\ streams = EmptyMap
  /\ \E i, j \in Ids :
       /\ i # j
       /\ ffmpeg[i].wsPort # ffmpeg[j].wsPort
       /\ \A p \in {i, j} :
            /\ ffmpeg[p].st = "running" /\ ffmpeg[p].signalled
            /\ wss[p].closeCalls = 1

\* C33: a pending timer creates a player only on behalf of the effect run
\* that is still in place, never of one that was cleaned up, and once an
\* effect run is cleaned up no player is left alive.
C33_NothingOutlivesEffect ==
  [][/\ \A t \in {"init", "poll"} \X (1..MaxEffects) :
          TimerFire(t) /\ player'.created > player.created =>
            t[2] = player.effect
     /\ EffectCleanup => player'.alive = {}]_vars

\* the camera of the list on port p, if there is one: cameras are told apart
\* by their port, which the list never changes and never repeats
OnPort(cs, p) == { cs[i] : i \in { j \in 1..Len(cs) : cs[j].wsPort = p } }

\* the active flag and the stream URL shown for port p
Shown(cs, p) == { <<c.active, c.wsUrl>> : c \in OnPort(cs, p) }

CameraPorts == BASE_WS_PORT..(BASE_WS_PORT + MaxCameras)

\* C34: a camera becomes active, with the URL of the response, only by a
\* successful start response for that camera; a start that failed or threw
\* changes no camera; after a stop that did not throw the camera is inactive
\* without a URL; and no response changes the flag or the URL of a camera
\* other than the one the request was made for.
C34_ActiveOnlyByOwnStart ==
  [][/\ \A p \in CameraPorts :
          (\E c \in OnPort(cameras'.list, p) : c.active)
            /\ ~(\E c \in OnPort(cameras.list, p) : c.active) =>
              \E call \in cameras.calls :
                /\ call.wsPort = p
                /\ StartReply(call, StartOk(<<"number", p>>))
                /\ Shown(cameras'.list, p) = {<<TRUE, StartWsUrl(<<"number", p>>)>>}
     /\ \A call \in cameras.calls :
          /\ \A r \in StartReplies(call) :
               StartReply(call, r) =>
                 /\ ~r.success => cameras'.list = cameras.list
                 /\ \A p \in CameraPorts \ {call.wsPort} :
                      Shown(cameras'.list, p) = Shown(cameras.list, p)
          /\ StopReply(call, FALSE) =>
               /\ Shown(cameras'.list, call.wsPort) \subseteq {<<FALSE, NoUrl>>}
               /\ \A p \in CameraPorts \ {call.wsPort} :
                    Shown(cameras'.list, p) = Shown(cameras.list, p)]_vars

====
